---- MODULE Spec2Model ----
(***************************************************************************)
(* Model of scripts/merge-docs-index.py: one process run of main() reads   *)
(* the primary index (<docs-dir>/index/index.json) and the secondary index *)
(* (<listkit-doccarchive>/index/index.json), merges the archive            *)
(* identifiers and the navigator tree in memory, and writes the primary    *)
(* index back.  The same command line may be run again on the resulting    *)
(* file system.                                                            *)
(***************************************************************************)
EXTENDS Integers, Sequences, FiniteSets, TLC

\* Bounds of the model.
MaxIdLen == 2
MaxNodes == 2
MaxRuns == 2
MaxArgs == 3

Dirs == {"d1", "d2"}
Identifiers == {"Lists", "ListKit"}
Program == "merge-docs-index.py"

Range(s) == {s[i] : i \in 1..Len(s)}
SeqsUpTo(S, n) == UNION {[1..k -> S] : k \in 0..n}
Count(s, x) == Cardinality({i \in 1..Len(s) : s[i] = x})
Max(m, n) == IF m >= n THEN m ELSE n

(***************************************************************************)
(* JSON values.  A navigation node is an object with a "children" key that *)
(* may be absent; its other keys are carried by title.  A document is an   *)
(* object whose keys includedArchiveIdentifiers, interfaceLanguages and    *)
(* interfaceLanguages.swift may each be absent; otherLangs stands for the  *)
(* other entries of interfaceLanguages and otherKeys for the other         *)
(* top-level keys.                                                         *)
(***************************************************************************)
Leaf(t) == [title |-> t, hasChildren |-> FALSE, children |-> <<>>]
Branch(t, kids) == [title |-> t, hasChildren |-> TRUE, children |-> kids]
TopNodes == {Branch("R", <<Leaf("X")>>), Leaf("Y"), Leaf("Z")}

NoDoc ==
  [hasIds |-> FALSE, ids |-> <<>>, hasIL |-> FALSE, hasSwift |-> FALSE,
   swift |-> <<>>, otherLangs |-> "none", otherKeys |-> "none"]

IdsDocs ==
  {[NoDoc EXCEPT !.hasIL = TRUE, !.hasSwift = TRUE,
                 !.swift = <<Branch("R", <<Leaf("X")>>)>>]}
  \cup {[NoDoc EXCEPT !.hasIds = TRUE, !.ids = s, !.hasIL = TRUE, !.hasSwift = TRUE,
                      !.swift = <<Branch("R", <<Leaf("X")>>)>>]
          : s \in SeqsUpTo(Identifiers, MaxIdLen)}

NavDocs ==
  {[NoDoc EXCEPT !.hasIds = TRUE, !.ids = <<"Lists">>],
   [NoDoc EXCEPT !.hasIds = TRUE, !.ids = <<"Lists">>, !.hasIL = TRUE]}
  \cup {[NoDoc EXCEPT !.hasIds = TRUE, !.ids = <<"Lists">>, !.hasIL = TRUE,
                      !.hasSwift = TRUE, !.swift = s]
          : s \in SeqsUpTo(TopNodes, MaxNodes)}

\* What a file on disk holds: nothing, text that is not JSON, a JSON array,
\* or a JSON object; compact tells whether the text is free of padding.
MissingFile == [kind |-> "missing", compact |-> FALSE, doc |-> NoDoc]
MalformedFile == [kind |-> "malformed", compact |-> FALSE, doc |-> NoDoc]
ArrayFile == [kind |-> "array", compact |-> FALSE, doc |-> NoDoc]
ObjectFile(d) == [kind |-> "object", compact |-> FALSE, doc |-> d]
InputFiles ==
  {MissingFile, MalformedFile, ArrayFile} \cup {ObjectFile(d) : d \in IdsDocs \cup NavDocs}

\* The pass-through keys of the index of directory dir are marked with dir.
Tagged(file, dir) ==
  IF file.kind # "object" THEN file
  ELSE [file EXCEPT !.doc.otherKeys = dir,
                    !.doc.otherLangs = IF file.doc.hasIL THEN dir ELSE "none"]

\* sys.argv: the program name followed by the positional arguments.
ArgVectors ==
  {<<Program, a, d>> : a \in Dirs, d \in Dirs}
  \cup {<<Program>> \o [i \in 1..n |-> "d1"] : n \in (0..MaxArgs) \ {2}}

VARIABLES
  argv,           \* sys.argv of the command line
  fs,             \* directory -> content of <directory>/index/index.json
  pc,             \* position of the running process in main
  lists_index,    \* the loaded primary document
  listkit_index,  \* the loaded secondary document
  archive_ids,    \* local archive_ids
  listkit_items,  \* local listkit_items
  stdout,         \* lines printed by the current run
  exitCode,       \* -1 while running
  err,            \* the uncaught exception, "none" if none
  accesses,       \* files the current run has opened, in order
  runs,           \* number of runs started
  pre,            \* fs when the current run started
  fs0             \* fs before the first run

vars ==
  <<argv, fs, pc, lists_index, listkit_index, archive_ids, listkit_items,
    stdout, exitCode, err, accesses, runs, pre, fs0>>

Unset == [kind |-> "unset", doc |-> NoDoc]

\* lines 19-23: the two index paths, named by their directory.
ListkitPath == argv[2]
ListsPath == argv[3]

\* json.load of a readable, well-formed file.
JsonLoad(file) ==
  [kind |-> IF file.kind = "object" THEN "dict" ELSE "list", doc |-> file.doc]

\* Mutant of JsonDump: a fresh object holding only the two merged keys.
JsonDumpMergedOnly(value) ==
  [kind |-> "object", compact |-> TRUE,
   doc |-> [value.doc EXCEPT !.otherKeys = "none"]]

\* json.dump(..., separators=(",", ":")).
JsonDump(value) == [kind |-> "object", compact |-> TRUE, doc |-> value.doc]

\* dict.get with the defaults of lines 32-33 and 40-41.
GetIds(doc) == IF doc.hasIds THEN doc.ids ELSE <<>>
GetSwift(doc) == IF doc.hasIL /\ doc.hasSwift THEN doc.swift ELSE <<>>
GetChildren(node) == IF node.hasChildren THEN node.children ELSE <<>>

\* Mutant of AppendNew: membership is tested against the primary's original
\* list only, not against the list being built.
AppendNewStale(ids, rest) ==
  ids \o SelectSeq(rest, LAMBDA e : e \notin Range(ids))

\* Mutant of AppendNew: the loop stops one element short.
RECURSIVE AppendNewShort(_, _)
AppendNewShort(ids, rest) ==
  IF Len(rest) <= 1 THEN ids
  ELSE AppendNewShort(IF Head(rest) \in Range(ids) THEN ids ELSE Append(ids, Head(rest)),
                      Tail(rest))

\* Mutant of AppendNew: no membership test at all.
AppendNewUnchecked(ids, rest) == ids \o rest

\* lines 34-36: the loop appending each identifier not yet in archive_ids.
RECURSIVE AppendNew(_, _)
AppendNew(ids, rest) ==
  IF rest = <<>> THEN ids
  ELSE AppendNew(IF Head(rest) \in Range(ids) THEN ids ELSE Append(ids, Head(rest)),
                 Tail(rest))

\* line 37
SetIds(doc, ids) == [doc EXCEPT !.hasIds = TRUE, !.ids = ids]

\* Mutant of ExtendRoot: the root's children are replaced, not extended.
ExtendRootReplacing(items, extra) ==
  [items EXCEPT ![1] = [items[1] EXCEPT !.hasChildren = TRUE, !.children = extra]]

\* lines 45-48: root = lists_items[0]; its children extended by listkit_items.
ExtendRoot(items, extra) ==
  LET root == items[1]
      children == GetChildren(root) \o extra
  IN  [items EXCEPT ![1] = [root EXCEPT !.hasChildren = TRUE, !.children = children]]

\* Mutant of MergeTree: an empty primary sequence adopts the secondary's nodes.
MergeTreeAdopting(doc, extra) ==
  IF extra = <<>> THEN doc
  ELSE IF GetSwift(doc) = <<>>
       THEN [doc EXCEPT !.hasIL = TRUE, !.hasSwift = TRUE, !.swift = extra]
       ELSE [doc EXCEPT !.swift =
               [@ EXCEPT ![1] = [doc.swift[1] EXCEPT
                                   !.hasChildren = TRUE,
                                   !.children = GetChildren(doc.swift[1]) \o extra]]]

\* Mutant of MergeTree: nodes already among the root's children are skipped.
MergeTreeDeduplicating(doc, extra) ==
  IF GetSwift(doc) # <<>> /\ extra # <<>>
  THEN LET old == GetChildren(doc.swift[1])
           new == SelectSeq(extra, LAMBDA n : n \notin Range(old))
       IN  [doc EXCEPT !.swift =
              [@ EXCEPT ![1] = [doc.swift[1] EXCEPT !.hasChildren = TRUE,
                                                     !.children = old \o new]]]
  ELSE doc

\* lines 43-48 on the loaded primary document.
MergeTree(doc, extra) ==
  IF GetSwift(doc) # <<>> /\ extra # <<>>
  THEN [doc EXCEPT !.swift = ExtendRoot(GetSwift(doc), extra)]
  ELSE doc

Line(kind, n, ids, path) == [line |-> kind, n |-> n, ids |-> ids, path |-> path]

Init ==
  /\ argv \in ArgVectors
  /\ \E g \in [Dirs -> InputFiles] : fs = [d \in Dirs |-> Tagged(g[d], d)]
  /\ pc = "start"
  /\ lists_index = Unset
  /\ listkit_index = Unset
  /\ archive_ids = <<>>
  /\ listkit_items = <<>>
  /\ stdout = <<>>
  /\ exitCode = -1
  /\ err = "none"
  /\ accesses = <<>>
  /\ runs = 1
  /\ pre = fs
  /\ fs0 = fs

\* An uncaught exception: traceback, exit status 1.
Raise(e) ==
  /\ err' = e
  /\ exitCode' = 1
  /\ pc' = "exited"

\* Mutant of CheckArgs: the test is "fewer than" instead of "other than".
CheckArgsAtLeast ==
  /\ pc = "start"
  /\ IF Len(argv) < 3
     THEN /\ stdout' = <<Line("usage", 0, <<>>, argv[1])>>
          /\ exitCode' = 1
          /\ pc' = "exited"
     ELSE /\ pc' = "read_lists"
          /\ UNCHANGED <<stdout, exitCode>>
  /\ UNCHANGED <<argv, fs, lists_index, listkit_index, archive_ids, listkit_items,
                 err, accesses, runs, pre, fs0>>

\* lines 15-17
CheckArgs ==
  /\ pc = "start"
  /\ IF Len(argv) # 3
     THEN /\ stdout' = <<Line("usage", 0, <<>>, argv[1])>>
          /\ exitCode' = 1
          /\ pc' = "exited"
     ELSE /\ pc' = "read_lists"
          /\ UNCHANGED <<stdout, exitCode>>
  /\ UNCHANGED <<argv, fs, lists_index, listkit_index, archive_ids, listkit_items,
                 err, accesses, runs, pre, fs0>>

\* lines 25-26
ReadLists ==
  /\ pc = "read_lists"
  /\ accesses' = Append(accesses, <<ListsPath, "r">>)
  /\ CASE fs[ListsPath].kind = "missing" ->
            Raise("FileNotFoundError") /\ UNCHANGED lists_index
       [] fs[ListsPath].kind = "malformed" ->
            Raise("JSONDecodeError") /\ UNCHANGED lists_index
       [] OTHER ->
            /\ lists_index' = JsonLoad(fs[ListsPath])
            /\ pc' = "read_listkit"
            /\ UNCHANGED <<err, exitCode>>
  /\ UNCHANGED <<argv, fs, listkit_index, archive_ids, listkit_items, stdout,
                 runs, pre, fs0>>

\* Mutant of ReadListKit: the primary file was already opened for writing
\* (and so truncated) when the secondary is read.
ReadListKitAfterTruncate ==
  /\ pc = "read_listkit"
  /\ accesses' = Append(accesses, <<ListkitPath, "r">>)
  /\ fs' = [fs EXCEPT ![ListsPath] = MalformedFile]
  /\ CASE fs'[ListkitPath].kind = "missing" ->
            Raise("FileNotFoundError") /\ UNCHANGED listkit_index
       [] fs'[ListkitPath].kind = "malformed" ->
            Raise("JSONDecodeError") /\ UNCHANGED listkit_index
       [] OTHER ->
            /\ listkit_index' = JsonLoad(fs'[ListkitPath])
            /\ pc' = "merge_ids"
            /\ UNCHANGED <<err, exitCode>>
  /\ UNCHANGED <<argv, lists_index, archive_ids, listkit_items, stdout,
                 runs, pre, fs0>>

\* lines 28-29
ReadListKit ==
  /\ pc = "read_listkit"
  /\ accesses' = Append(accesses, <<ListkitPath, "r">>)
  /\ CASE fs[ListkitPath].kind = "missing" ->
            Raise("FileNotFoundError") /\ UNCHANGED listkit_index
       [] fs[ListkitPath].kind = "malformed" ->
            Raise("JSONDecodeError") /\ UNCHANGED listkit_index
       [] OTHER ->
            /\ listkit_index' = JsonLoad(fs[ListkitPath])
            /\ pc' = "merge_ids"
            /\ UNCHANGED <<err, exitCode>>
  /\ UNCHANGED <<argv, fs, lists_index, archive_ids, listkit_items, stdout,
                 runs, pre, fs0>>

\* lines 32-37; .get on a value that is not a dict raises AttributeError.
MergeIds ==
  /\ pc = "merge_ids"
  /\ IF lists_index.kind # "dict" \/ listkit_index.kind # "dict"
     THEN /\ Raise("AttributeError")
          /\ UNCHANGED <<lists_index, archive_ids>>
     ELSE /\ archive_ids' = AppendNew(GetIds(lists_index.doc), GetIds(listkit_index.doc))
          /\ lists_index' = [lists_index EXCEPT !.doc = SetIds(@, archive_ids')]
          /\ pc' = "merge_tree"
          /\ UNCHANGED <<err, exitCode>>
  /\ UNCHANGED <<argv, fs, listkit_index, listkit_items, stdout, accesses,
                 runs, pre, fs0>>

\* lines 40-48
MergeNavigator ==
  /\ pc = "merge_tree"
  /\ listkit_items' = GetSwift(listkit_index.doc)
  /\ lists_index' = [lists_index EXCEPT !.doc = MergeTree(@, listkit_items')]
  /\ pc' = "write"
  /\ UNCHANGED <<argv, fs, listkit_index, archive_ids, stdout, exitCode, err,
                 accesses, runs, pre, fs0>>

\* lines 50-51
WriteIndex ==
  /\ pc = "write"
  /\ accesses' = Append(accesses, <<ListsPath, "w">>)
  /\ fs' = [fs EXCEPT ![ListsPath] = JsonDump(lists_index)]
  /\ pc' = "print"
  /\ UNCHANGED <<argv, lists_index, listkit_index, archive_ids, listkit_items,
                 stdout, exitCode, err, runs, pre, fs0>>

\* lines 53-54, then the normal end of the process
PrintSummary ==
  /\ pc = "print"
  /\ stdout' = <<Line("merged", Len(listkit_items), <<>>, ListsPath),
                 Line("ids", 0, archive_ids, "")>>
  /\ exitCode' = 0
  /\ pc' = "exited"
  /\ UNCHANGED <<argv, fs, lists_index, listkit_index, archive_ids, listkit_items,
                 err, accesses, runs, pre, fs0>>

\* The same command line is run again: a new process on the current files.
Rerun ==
  /\ pc = "exited"
  /\ runs < MaxRuns
  /\ runs' = runs + 1
  /\ pre' = fs
  /\ pc' = "start"
  /\ lists_index' = Unset
  /\ listkit_index' = Unset
  /\ archive_ids' = <<>>
  /\ listkit_items' = <<>>
  /\ stdout' = <<>>
  /\ exitCode' = -1
  /\ err' = "none"
  /\ accesses' = <<>>
  /\ UNCHANGED <<argv, fs, fs0>>

Next ==
  \/ CheckArgs
  \/ ReadLists
  \/ ReadListKit
  \/ MergeIds
  \/ MergeNavigator
  \/ WriteIndex
  \/ PrintSummary
  \/ Rerun

Spec == Init /\ [][Next]_vars

(***************************************************************************)
(* Vocabulary of the properties.                                           *)
(***************************************************************************)
\* The run has ended normally: both lines printed, exit status 0.
Succeeded == pc = "exited" /\ exitCode = 0
\* The run has ended after being given exactly two positional arguments.
EndedWithTwoArgs == pc = "exited" /\ Len(argv) = 3

PrimaryIn == pre[ListsPath].doc
SecondaryIn == pre[ListkitPath].doc
PrimaryOut == fs[ListsPath].doc

\* An identifier list, empty when the key is absent.
IdsOf(doc) == IF doc.hasIds THEN doc.ids ELSE <<>>
\* The swift node sequence, empty when either key is absent.
SwiftOf(doc) == IF doc.hasIL /\ doc.hasSwift THEN doc.swift ELSE <<>>
ChildrenOf(node) == IF node.hasChildren THEN node.children ELSE <<>>
Prefix(s, n) == SubSeq(s, 1, n)
NoRepeat(s) == \A i, j \in 1..Len(s) : s[i] = s[j] => i = j

\* The positions of B that hold an identifier not in A, and those among them
\* that hold it for the first time in B.
NewAt(A, B) == {i \in 1..Len(B) : B[i] \notin Range(A)}
FirstNewAt(A, B) == {i \in NewAt(A, B) : \A j \in 1..(i - 1) : B[j] # B[i]}
\* A followed by the elements of B at the positions I, in B's order.
FollowedBy(A, B, I) ==
  A \o [k \in 1..Cardinality(I) |->
          B[CHOOSE i \in I : Cardinality({j \in I : j <= i}) = k]]

RECURSIVE Copies(_, _)
Copies(s, k) == IF k = 0 THEN <<>> ELSE s \o Copies(s, k - 1)

\* C1 (as stated): after a successful run the primary's identifier list is A
\* followed by every element of B that is not in A, in B's order.
C1_AllNewAppended ==
  Succeeded =>
    /\ PrimaryOut.hasIds
    /\ PrimaryOut.ids =
         FollowedBy(IdsOf(PrimaryIn), IdsOf(SecondaryIn),
                    NewAt(IdsOf(PrimaryIn), IdsOf(SecondaryIn)))

\* C1 (amended): after a successful run the primary's identifier list is A
\* followed by the first occurrence in B of each identifier that is not in A,
\* in B's order.
C1_FirstNewAppended ==
  Succeeded =>
    /\ PrimaryOut.hasIds
    /\ PrimaryOut.ids =
         FollowedBy(IdsOf(PrimaryIn), IdsOf(SecondaryIn),
                    FirstNewAt(IdsOf(PrimaryIn), IdsOf(SecondaryIn)))

\* C1 witness: a successful run whose secondary list repeats an identifier
\* that a non-empty primary list does not hold.
C1_Witness ==
  /\ Succeeded
  /\ IdsOf(PrimaryIn) # <<>>
  /\ NewAt(IdsOf(PrimaryIn), IdsOf(SecondaryIn))
       # FirstNewAt(IdsOf(PrimaryIn), IdsOf(SecondaryIn))

\* C2 (as stated): after a successful merge the primary's identifier list
\* holds every identifier of both inputs, holds none twice, and keeps the
\* primary input's identifiers in their original relative order.
C2_SupersetNoRepeat ==
  Succeeded =>
    /\ Range(IdsOf(PrimaryIn)) \cup Range(IdsOf(SecondaryIn)) \subseteq Range(PrimaryOut.ids)
    /\ NoRepeat(PrimaryOut.ids)
    /\ SelectSeq(PrimaryOut.ids, LAMBDA e : e \in Range(IdsOf(PrimaryIn)))
         = IdsOf(PrimaryIn)

\* C2 (amended): as stated, except that an identifier occurs in the result as
\* often as it occurred in the primary input, and once when only the
\* secondary input held it; so the result holds none twice when the primary
\* input held none twice.
C2_SupersetNoNewRepeat ==
  Succeeded =>
    /\ Range(IdsOf(PrimaryIn)) \cup Range(IdsOf(SecondaryIn)) \subseteq Range(PrimaryOut.ids)
    /\ \A x \in Range(PrimaryOut.ids) :
         Count(PrimaryOut.ids, x) = Max(1, Count(IdsOf(PrimaryIn), x))
    /\ NoRepeat(IdsOf(PrimaryIn)) => NoRepeat(PrimaryOut.ids)
    /\ SelectSeq(PrimaryOut.ids, LAMBDA e : e \in Range(IdsOf(PrimaryIn)))
         = IdsOf(PrimaryIn)

\* C2 witness: a successful merge of a primary list that repeats an
\* identifier with a secondary list that brings a new one.
C2_Witness ==
  /\ Succeeded
  /\ ~ NoRepeat(IdsOf(PrimaryIn))
  /\ NewAt(IdsOf(PrimaryIn), IdsOf(SecondaryIn)) # {}

\* C3: when both swift sequences are non-empty, a successful run leaves the
\* root's children equal to its original children followed by the whole
\* secondary sequence.
C3_RootChildrenExtended ==
  (Succeeded /\ SwiftOf(PrimaryIn) # <<>> /\ SwiftOf(SecondaryIn) # <<>>) =>
    /\ SwiftOf(PrimaryOut) # <<>>
    /\ PrimaryOut.swift[1].hasChildren
    /\ PrimaryOut.swift[1].children
         = ChildrenOf(PrimaryIn.swift[1]) \o SwiftOf(SecondaryIn)

\* C3 witness: root children [X] and a secondary sequence of two nodes.
C3_Witness ==
  /\ Succeeded
  /\ SwiftOf(PrimaryIn) # <<>>
  /\ ChildrenOf(PrimaryIn.swift[1]) = <<Leaf("X")>>
  /\ SwiftOf(SecondaryIn) = <<Leaf("Y"), Leaf("Z")>>
  /\ Len(PrimaryOut.swift[1].children) = 3

\* C4: a run given a missing or malformed index file ends with an error and
\* leaves every file as it was; no error of any kind leaves a file changed;
\* and a file is changed only by the one write that follows both reads and
\* the finished in-memory merge.
C4_NoWriteBeforeSuccess ==
  /\ (EndedWithTwoArgs
        /\ (pre[ListsPath].kind \in {"missing", "malformed"}
              \/ pre[ListkitPath].kind \in {"missing", "malformed"}))
       => (err # "none" /\ exitCode # 0 /\ fs = pre)
  /\ err # "none" => fs = pre
  /\ (fs # pre \/ \E i \in 1..Len(accesses) : accesses[i][2] = "w") =>
       /\ pc \in {"print", "exited"}
       /\ err = "none"
       /\ accesses = <<<<ListsPath, "r">>, <<ListkitPath, "r">>, <<ListsPath, "w">>>>
       /\ lists_index.kind = "dict"
       /\ listkit_index.kind = "dict"
       /\ lists_index.doc.hasIds
       /\ fs[ListsPath].doc = lists_index.doc

\* C4 witness: the primary is a good document, the secondary is malformed,
\* and the run has ended on the parse error.
C4_Witness ==
  /\ EndedWithTwoArgs
  /\ pre[ListsPath].kind = "object"
  /\ pre[ListkitPath].kind = "malformed"
  /\ err = "JSONDecodeError"

NoSwiftEntries(doc) == ~ doc.hasIL \/ ~ doc.hasSwift \/ doc.swift = <<>>

\* C5: when both files hold documents and one of them has no swift entries,
\* the run ends without error, the primary's interfaceLanguages content is
\* written back as it was, and the identifiers are still merged.
C5_EmptySwiftIsNoOp ==
  (EndedWithTwoArgs
     /\ pre[ListsPath].kind = "object" /\ pre[ListkitPath].kind = "object"
     /\ (NoSwiftEntries(PrimaryIn) \/ NoSwiftEntries(SecondaryIn))) =>
    /\ err = "none"
    /\ exitCode = 0
    /\ PrimaryOut.hasIL = PrimaryIn.hasIL
    /\ PrimaryOut.hasSwift = PrimaryIn.hasSwift
    /\ PrimaryOut.swift = PrimaryIn.swift
    /\ PrimaryOut.otherLangs = PrimaryIn.otherLangs
    /\ PrimaryOut.hasIds
    /\ Prefix(PrimaryOut.ids, Len(IdsOf(PrimaryIn))) = IdsOf(PrimaryIn)
    /\ Range(IdsOf(SecondaryIn)) \subseteq Range(PrimaryOut.ids)

\* C5 witness: the primary has interfaceLanguages but no swift entry, the
\* secondary has swift nodes, and the run added an identifier.
C5_Witness ==
  /\ Succeeded
  /\ PrimaryIn.hasIL
  /\ ~ PrimaryIn.hasSwift
  /\ SwiftOf(SecondaryIn) # <<>>
  /\ PrimaryOut.ids # IdsOf(PrimaryIn)

\* The file is one that an earlier run of the program wrote.
WrittenByMerge(file) == file.kind = "object" /\ file.compact

\* C6: a successful run on a primary that an earlier merge produced, with the
\* secondary document as it was before the first run, leaves the identifier
\* list exactly as it found it.
C6_IdsIdempotent ==
  (Succeeded /\ runs >= 2 /\ WrittenByMerge(pre[ListsPath])
     /\ pre[ListkitPath] = fs0[ListkitPath]) =>
    /\ PrimaryIn.hasIds
    /\ PrimaryOut.hasIds
    /\ PrimaryOut.ids = PrimaryIn.ids

\* C6 witness: a second successful run after a first one that had added an
\* identifier to the primary's list.
C6_Witness ==
  /\ Succeeded
  /\ runs >= 2
  /\ WrittenByMerge(pre[ListsPath])
  /\ pre[ListkitPath] = fs0[ListkitPath]
  /\ PrimaryIn.ids # IdsOf(fs0[ListsPath].doc)

\* The number of nodes the run has appended to the root's children.
AppendedToRoot ==
  IF SwiftOf(PrimaryIn) = <<>> \/ SwiftOf(PrimaryOut) = <<>> THEN 0
  ELSE Len(ChildrenOf(PrimaryOut.swift[1])) - Len(ChildrenOf(PrimaryIn.swift[1]))

\* C7: the count printed by a successful run is the number of secondary
\* top-level nodes that the run appended to the root's children.
C7_CountIsAppended ==
  Succeeded =>
    /\ Len(stdout) = 2
    /\ stdout[1].line = "merged"
    /\ stdout[1].n = AppendedToRoot

\* C8: with a number of positional arguments other than two the run prints
\* the usage line, exits with 1 and opens no file; with two arguments and no
\* error it exits with 0.
C8_UsageOrZero ==
  /\ Len(argv) # 3 => (accesses = <<>> /\ fs = pre)
  /\ (pc = "exited" /\ Len(argv) # 3) =>
       /\ stdout = <<Line("usage", 0, <<>>, Program)>>
       /\ exitCode = 1
  /\ (EndedWithTwoArgs /\ err = "none") => exitCode = 0

\* C8 witness: a run with one positional argument has ended.
C8_Witness == pc = "exited" /\ Len(argv) = 2 /\ exitCode = 1

\* What a successful run leaves alone inside the primary document and in the
\* other files.
PrimaryFrame ==
  /\ \A d \in Dirs \ {ListsPath} : fs[d] = pre[d]
  /\ PrimaryOut.otherKeys = PrimaryIn.otherKeys
  /\ PrimaryOut.otherLangs = PrimaryIn.otherLangs
  /\ PrimaryOut.hasIL = PrimaryIn.hasIL
  /\ PrimaryOut.hasSwift = PrimaryIn.hasSwift
  /\ Len(PrimaryOut.swift) = Len(PrimaryIn.swift)
  /\ \A i \in 2..Len(PrimaryIn.swift) : PrimaryOut.swift[i] = PrimaryIn.swift[i]
  /\ PrimaryIn.swift # <<>> =>
       /\ PrimaryOut.swift[1].title = PrimaryIn.swift[1].title
       /\ Prefix(ChildrenOf(PrimaryOut.swift[1]), Len(ChildrenOf(PrimaryIn.swift[1])))
            = ChildrenOf(PrimaryIn.swift[1])
  /\ listkit_index.doc = SecondaryIn

\* C9 (as stated): a successful run changes no file but the primary index,
\* changes in it only the identifier list and the root's children, and never
\* modifies the secondary document or its file.
C9_OnlyPrimaryChanged ==
  Succeeded => (PrimaryFrame /\ fs[ListkitPath] = pre[ListkitPath])

\* C9 (amended): as stated, except that the secondary's file is left as it
\* was only when it is a different file from the primary index; given the
\* same directory twice, the secondary's file is the primary index and is
\* overwritten.
C9_OnlyPrimaryChangedDistinct ==
  Succeeded =>
    /\ PrimaryFrame
    /\ ListkitPath # ListsPath => fs[ListkitPath] = pre[ListkitPath]

\* C9 witness: two different directories, a primary with two top-level nodes
\* whose root has children, and a run that added an identifier and nodes.
C9_Witness ==
  /\ Succeeded
  /\ ListkitPath # ListsPath
  /\ Len(SwiftOf(PrimaryIn)) = 2
  /\ ChildrenOf(PrimaryIn.swift[1]) # <<>>
  /\ PrimaryOut.swift # PrimaryIn.swift
  /\ PrimaryOut.ids # IdsOf(PrimaryIn)

\* C10: with different primary and secondary files, both with swift nodes
\* before the first run, the root's children after the k-th successful run
\* are the original children followed by k copies of the secondary sequence.
C10_ChildrenGrowEachRun ==
  (Succeeded /\ ListkitPath # ListsPath
     /\ SwiftOf(fs0[ListsPath].doc) # <<>> /\ SwiftOf(fs0[ListkitPath].doc) # <<>>) =>
    /\ SwiftOf(PrimaryOut) # <<>>
    /\ ChildrenOf(PrimaryOut.swift[1])
         = ChildrenOf(fs0[ListsPath].doc.swift[1])
             \o Copies(SwiftOf(fs0[ListkitPath].doc), runs)

\* C10 witness: the second successful run on a root that had children.
C10_Witness ==
  /\ Succeeded
  /\ runs = 2
  /\ ListkitPath # ListsPath
  /\ SwiftOf(fs0[ListsPath].doc) # <<>>
  /\ ChildrenOf(fs0[ListsPath].doc.swift[1]) # <<>>
  /\ SwiftOf(fs0[ListkitPath].doc) # <<>>

====
